---------------------------- MODULE Spec2Model ----------------------------
(***************************************************************************)
(* Trade-simulation engine of stock-strategy-analyzer                      *)
(* (src/src/backtest/engine.py): BacktestEngine.run_backtest with its two  *)
(* simulators (_execute_trades, _execute_trades_vectorized), the equity    *)
(* calculation and _classify_trades.                                       *)
(*                                                                         *)
(* Number representation.  The code computes in binary floating point; the *)
(* model computes the same expressions exactly, in fixed point:            *)
(*   - a rate r (commission, slippage, lending, trailing threshold) is the *)
(*     integer r * RateDen;                                                *)
(*   - a Close/High/Low is a whole number of currency units;               *)
(*   - entry_price / exit_price are held in units of 1/RateDen;            *)
(*   - cash, cost, proceeds, profit and equity are held in units of        *)
(*     1/MoneyDen, MoneyDen = RateDen * RateDen * DaysPerYear.             *)
(* Bars are daily (every fetcher and test of the repository produces daily *)
(* or business-daily bars): a timestamp is a day number and                *)
(* (exit - entry).days is a difference of day numbers.  Bar indices are    *)
(* 1-based here (bar n is the code's index n - 1); 0 stands for None.      *)
(***************************************************************************)
EXTENDS Integers, Sequences, FiniteSets, TLC

MaxBars == 4
MaxCostBars == 3
MaxCurveLen == 4
MaxTradeList == 5
MaxStrategies == 3
MaxRankings == 3
MaxCodes == 3
MaxFailed == 2

RateDen == 100
DaysPerYear == 365
TradingDays == 252
MoneyDen == RateDen * RateDen * DaysPerYear

trailing_stop_long == 10
trailing_stop_short == 10

VARIABLES
    df,                     \* the OHLCV frame: sequence of [Date, High, Low, Close]
    signals,                \* 1 = Enter, -1 = Exit, 0 = none, one per bar
    strategy_type,          \* "long" | "short"
    initial_capital,        \* config backtest.initial_capital (currency units)
    commission,             \* rate * RateDen
    slippage,               \* rate * RateDen
    lending_rate,           \* rate * RateDen
    target_holding_days,
    max_holding_days,
    trailing_stop_enabled,
    use_vectorized,
    pc,                     \* position of run_backtest
    i,                      \* _execute_trades: next bar of the loop
    cand,                   \* _execute_trades_vectorized: next entry candidate
    current_pos,            \* _execute_trades_vectorized: scan position
    cash,
    position,               \* _execute_trades: shares held
    entry_price,            \* _execute_trades
    entry_date,             \* _execute_trades: NoDate = None
    trades,
    equity,
    valid_trades,
    forced_trades,
    excluded_trades,
    valid_equity_curve,     \* run_backtest: the curve the metrics are computed on
    total_return,           \* BacktestResult.total_return, as the fraction num / den
    num_trades,             \* BacktestResult.num_trades
    equity_curve,           \* PerformanceMetrics: the argument of a call
    returns,                \* PerformanceMetrics: the argument of a call
    trade_list,             \* PerformanceMetrics: the argument of a call
    max_drawdown,           \* calculate_max_drawdown: the value returned
    sharpe_ratio,           \* calculate_sharpe_ratio: the value returned
    win_rate,               \* calculate_win_rate: the value returned
    profit_factor,          \* calculate_profit_factor: the value returned
    strategies,             \* calculate_compatibility: the strategies argument
    max_workers,            \* CompatibilityAnalyzer.max_workers
    task,                   \* position of each submitted _run_single_backtest
    frames,                 \* the local variables of each _run_single_backtest
    futures,                \* what each future holds once its call returned
    collected,              \* the futures as_completed has yielded, in order
    results,                \* the dictionary built by the collecting loop
    ranking_files,          \* rankings_dir: the lines of each <strategy>.jsonl
    rankings,               \* save_ranking: the list last saved per strategy
    request,                \* load_ranking: strategy, limit and offset
    loaded,                 \* load_ranking: the list returned
    all_codes,              \* DailyBatchProcessor.run: the codes of the stock list
    chunk_size,             \* DailyBatchProcessor.chunk_size
    resume,                 \* run: the resume argument
    test_mode,              \* run: the test_mode argument
    progress_file,          \* progress.json, NoFile when it does not exist
    progress,               \* run: what load_progress returned
    processed_codes,        \* run: local list
    failed_codes,           \* run: local list
    remaining_codes,        \* run: local list
    cursor,                 \* run: how many of remaining_codes the loops have taken
    strategy_results        \* run: local dictionary, strategy name -> items

inputs == <<df, signals, strategy_type, initial_capital, commission, slippage,
            lending_rate, target_holding_days, max_holding_days,
            trailing_stop_enabled, use_vectorized>>

buckets == <<valid_trades, forced_trades, excluded_trades>>

result == <<valid_equity_curve, total_return, num_trades>>

args == <<equity_curve, returns, trade_list>>

call == <<args, max_drawdown, sharpe_ratio, win_rate, profit_factor>>

run == <<inputs, i, cand, current_pos, cash, position, entry_price, entry_date,
         trades, equity, buckets, result>>

pool == <<strategies, max_workers, task, frames, futures, collected, results>>

cache == <<ranking_files, rankings, request, loaded>>

locals == <<resume, test_mode, progress, processed_codes, failed_codes,
            remaining_codes, cursor, strategy_results>>

batch == <<all_codes, chunk_size, progress_file, locals>>

services == <<pool, cache, batch>>

vars == <<run, pc, call, services>>

NoDate == 0 - 1

\* a percentage p is held as the exact fraction p = 100 * num / den
NoReturn == [num |-> 0, den |-> 1]

\* the quotients of a float division by 0: 0 / 0 and x / 0 for x > 0
NaN == [num |-> 0, den |-> 0]
Infinity == [num |-> 1, den |-> 0]

\* a profit factor is held as the exact fraction num / den, or Infinity
NoFactor == [num |-> 0, den |-> 1]

\* a Sharpe ratio s is held as its sign and its square s * s = num / den;
\* "nan" is the float that is no number
NoSharpe == [kind |-> "number", sign |-> 0, num |-> 0, den |-> 1]
NaNSharpe == [kind |-> "nan", sign |-> 0, num |-> 0, den |-> 0]

-----------------------------------------------------------------------------
(* Input families *)

\* Gap patterns between consecutive bars, cycled: calendar days, and a
\* calendar with skipped days.
Calendars == {<<1>>, <<1, 2, 2>>}

RECURSIVE DateOf(_, _)
DateOf(cal, j) ==
    IF j <= 1 THEN 0 ELSE DateOf(cal, j - 1) + cal[((j - 2) % Len(cal)) + 1]

\* Bar shapes of a direction: two flat bars and, when the run reads High and
\* Low at all (the vectorized simulator with the trailing stop enabled), one
\* with a wick on the side the trailing stop watches (High for long, Low for
\* short).  The levels are such that, with the 10 % thresholds, the close of
\* the second flat bar retraces from the wick but not from the close of the
\* first flat bar.
BarShapes(st, wick) ==
    IF st = "long"
    THEN { [High |-> 28, Low |-> 28, Close |-> 28],
           [High |-> 26, Low |-> 26, Close |-> 26] }
         \cup (IF wick THEN { [High |-> 30, Low |-> 28, Close |-> 28] } ELSE {})
    ELSE { [High |-> 32, Low |-> 32, Close |-> 32],
           [High |-> 34, Low |-> 34, Close |-> 34] }
         \cup (IF wick THEN { [High |-> 32, Low |-> 30, Close |-> 32] } ELSE {})

HoldingPolicies == { [target_days |-> 1, max_days |-> 3] }

Costs == { [commission |-> 0, slippage |-> 0, lending_rate |-> 0] }

\* initial_capital: buys one share at the cheaper close of the direction and
\* none at the dearer one
Capitals(st) == IF st = "long" THEN { 27 } ELSE { 33 }

\* (use_vectorized, trailing_stop.enabled); _execute_trades never reads the
\* trailing-stop settings, so it runs with the default (enabled) only.
Modes == { <<TRUE, TRUE>>, <<TRUE, FALSE>>, <<FALSE, TRUE>> }

\* Runs with costs: flat bars, for short one of them more than twice the
\* others; rates of 1 %, 5 % and 10 %; a capital that buys two shares.
CostBarShapes(st) ==
    IF st = "long"
    THEN { [High |-> 26, Low |-> 26, Close |-> 26],
           [High |-> 28, Low |-> 28, Close |-> 28] }
    ELSE { [High |-> 32, Low |-> 32, Close |-> 32],
           [High |-> 34, Low |-> 34, Close |-> 34],
           [High |-> 66, Low |-> 66, Close |-> 66] }

CostRates == { [commission |-> 10, slippage |-> 0, lending_rate |-> 0],
               [commission |-> 0, slippage |-> 5, lending_rate |-> 0],
               [commission |-> 1, slippage |-> 1, lending_rate |-> 10] }

CostCapitals(st) == IF st = "long" THEN { 60 } ELSE { 65 }

\* Runs through a collapse of the price: the close is 28 up to some bar and 1
\* from then on; 10 % commission; a capital that buys two shares at 28 and
\* leaves less than the commission, and one that buys none at 28.
CrashCloses == { 28, 1 }

CrashRates == { [commission |-> 10, slippage |-> 0, lending_rate |-> 0] }

CrashCapitals == { 57, 27 }

\* Frames a caller can pass although they are no price series: a flat bar
\* of the direction and a bar whose prices are 0.
UncheckedBarShapes(st) ==
    { IF st = "long" THEN [High |-> 26, Low |-> 26, Close |-> 26]
                     ELSE [High |-> 32, Low |-> 32, Close |-> 32],
      [High |-> 0, Low |-> 0, Close |-> 0] }

\* values of the trajectories passed to PerformanceMetrics directly
CurveValues == { 90, 100, 110, 120 }

\* values of the return series passed to PerformanceMetrics directly
ReturnValues == { 0 - 1, 0, 1 }

\* profits of the trades passed to PerformanceMetrics directly
ProfitValues == { 0, 5, 10, 20, 100, 0 - 3, 0 - 7, 0 - 100 }

-----------------------------------------------------------------------------
(* Helpers *)

Max(a, b) == IF a >= b THEN a ELSE b
Min(a, b) == IF a <= b THEN a ELSE b

\* Python int(num / den) for den > 0: truncation toward zero.
IntDiv(num, den) == IF num >= 0 THEN num \div den ELSE 0 - ((0 - num) \div den)

n == Len(df)
dates(j) == df[j].Date
prices(j) == df[j].Close
highs(j) == df[j].High
lows(j) == df[j].Low

\* index of the first hit of a mask, given as the set S of its hit bars;
\* 0 (None) when the mask has no hit
FirstIn(S) ==
    IF S # {}
    THEN CHOOSE j \in S : \A m \in S : j <= m
    ELSE 0

\* price * (1 + slippage) and price * (1 - slippage), in units of 1/RateDen
EntryPriceAt(j) == prices(j) * (RateDen + slippage)
ExitPriceAt(j) == prices(j) * (RateDen - slippage)

\* currency amounts in units of 1/MoneyDen
CostOf(shares, ep) == shares * ep * RateDen * DaysPerYear
CommissionOf(shares, p) == shares * p * commission * DaysPerYear
LendingOf(shares, ep, hd) == shares * ep * lending_rate * hd
SharesFor(c, ep) == IF ep > 0 THEN IntDiv(c, ep * RateDen * DaysPerYear) ELSE 0

-----------------------------------------------------------------------------
(* _execute_trades_vectorized: exit candidates of one entry *)

RECURSIVE Where(_, _)
\* np.where(signals_arr == v)[0] restricted to the first j bars, ascending
Where(v, j) ==
    IF j = 0 THEN <<>>
    ELSE IF signals[j] = v THEN Append(Where(v, j - 1), j) ELSE Where(v, j - 1)

entry_candidates == Where(1, n)
exit_candidates == Where(0 - 1, n)

\* exit_candidates[np.searchsorted(exit_candidates, entry_idx, side='right'):]
valid_exits(e) == SelectSeq(exit_candidates, LAMBDA x : x > e)

RECURSIVE cummax_OfClose(_, _, _)
\* Variant: the running maximum follows Close instead of High.
cummax_OfClose(e, ep, j) ==
    IF j <= e + 1 THEN Max(prices(j) * RateDen, ep)
    ELSE Max(cummax_OfClose(e, ep, j - 1), Max(prices(j) * RateDen, ep))

RECURSIVE cummax(_, _, _)
\* np.maximum.accumulate(np.maximum(highs[entry_idx+1:], entry_price)) at bar j
cummax(e, ep, j) ==
    IF j <= e + 1 THEN Max(highs(j) * RateDen, ep)
    ELSE Max(cummax(e, ep, j - 1), Max(highs(j) * RateDen, ep))

RECURSIVE cummin(_, _, _)
\* np.minimum.accumulate(np.minimum(lows[entry_idx+1:], entry_price)) at bar j
cummin(e, ep, j) ==
    IF j <= e + 1 THEN Min(lows(j) * RateDen, ep)
    ELSE Min(cummin(e, ep, j - 1), Min(lows(j) * RateDen, ep))

\* hit_mask at bar j (both sides scaled by RateDen * RateDen)
hit_mask(e, ep, j) ==
    IF strategy_type = "long"
    THEN prices(j) * RateDen * RateDen < cummax(e, ep, j) * (RateDen - trailing_stop_long)
    ELSE prices(j) * RateDen * RateDen > cummin(e, ep, j) * (RateDen + trailing_stop_short)

trailing_stop_idx(e, ep) ==
    IF trailing_stop_enabled /\ e + 1 <= n
    THEN FirstIn({ j \in (e + 1)..n : hit_mask(e, ep, j) })
    ELSE 0

\* search_end = min(entry_idx + max_holding_days + 2, n), as the last bar searched
search_end(e) == Min(e + max_holding_days + 1, n)

forced_exit_idx(e) ==
    FirstIn({ j \in (e + 1)..search_end(e) : dates(j) - dates(e) >= max_holding_days })

signal_exit_idx(e) ==
    IF Len(valid_exits(e)) > 0 THEN valid_exits(e)[1] ELSE n

\* "trailing stop is the earliest" step
PickTrailing(e, ep) ==
    LET ts == trailing_stop_idx(e, ep) IN
    IF ts # 0 /\ ts < signal_exit_idx(e)
    THEN [exit_idx |-> ts, forced_exit |-> FALSE, exit_reason |-> "trailing_stop"]
    ELSE [exit_idx |-> signal_exit_idx(e), forced_exit |-> FALSE, exit_reason |-> "signal"]

\* Variant: the forced exit replaces the candidate without comparing bars.
PickForced_Unconditional(e, r) ==
    LET fx == forced_exit_idx(e) IN
    IF fx # 0
    THEN [exit_idx |-> fx, forced_exit |-> TRUE, exit_reason |-> "forced_max"]
    ELSE r

\* "forced exit is the earliest" step
PickForced(e, r) ==
    LET fx == forced_exit_idx(e) IN
    IF fx # 0 /\ fx < r.exit_idx
    THEN [exit_idx |-> fx, forced_exit |-> TRUE, exit_reason |-> "forced_max"]
    ELSE r

\* Variant: the end of the data changes the reason and leaves the flag.
PickEndOfData_ReasonOnly(e, r) ==
    IF r.exit_idx = n /\ r.exit_reason = "signal"
       /\ (Len(valid_exits(e)) = 0 \/ valid_exits(e)[1] = n)
    THEN [r EXCEPT !.exit_reason = "end_of_data"]
    ELSE r

\* Variant: the end of the data is not marked.
PickEndOfData_Unmarked(e, r) == r

\* "end of data" step
PickEndOfData(e, r) ==
    IF r.exit_idx = n /\ r.exit_reason = "signal"
       /\ (Len(valid_exits(e)) = 0 \/ valid_exits(e)[1] = n)
    THEN [r EXCEPT !.forced_exit = TRUE, !.exit_reason = "end_of_data"]
    ELSE r

ResolveExit(e, ep) == PickEndOfData(e, PickForced(e, PickTrailing(e, ep)))

\* the trade record of entry bar e closed as r, sized with cash c
\* (profit_pct, a display ratio of profit and cost, is not carried)
VecTradeRecord(e, r, c) ==
    LET ep == EntryPriceAt(e)
        xp == ExitPriceAt(r.exit_idx)
        hd == dates(r.exit_idx) - dates(e)
        sh == SharesFor(c, ep)
        lending_cost == IF strategy_type = "short" THEN LendingOf(sh, ep, hd) ELSE 0
        fees == CommissionOf(sh, ep) + CommissionOf(sh, xp)
    IN  [ entry_date |-> dates(e),
          exit_date |-> dates(r.exit_idx),
          entry_price |-> ep,
          exit_price |-> xp,
          shares |-> sh,
          profit |-> IF strategy_type = "long"
                     THEN CostOf(sh, xp) - CostOf(sh, ep) - fees
                     ELSE CostOf(sh, ep) - CostOf(sh, xp) - fees - lending_cost,
          holding_days |-> hd,
          forced_exit |-> r.forced_exit,
          within_target_period |-> hd <= target_holding_days,
          exit_reason |-> r.exit_reason ]

\* cash - cost - entry_commission + proceeds - exit_commission - lending_cost
VecCashAfter(c, t) ==
    c - CostOf(t.shares, t.entry_price) - CommissionOf(t.shares, t.entry_price)
      + CostOf(t.shares, t.exit_price) - CommissionOf(t.shares, t.exit_price)
      - (IF strategy_type = "short"
         THEN LendingOf(t.shares, t.entry_price, t.holding_days) ELSE 0)

\* Variant: the scan resumes right after the entry bar.
NextScanPos_AfterEntry(e, exit_idx) == e + 1

\* current_pos = exit_idx + 1, after the pass for entry bar e
NextScanPos(e, exit_idx) == exit_idx + 1

\* Variant: no candidate is ever skipped.
InOpenSpan_Never(e) == FALSE

\* entry_idx < current_pos: the bar lies in the span of the previous pass
InOpenSpan(e) == e < current_pos

RECURSIVE VecScan(_, _, _, _)
\* the loop over entry_candidates from candidate k on, with scan position cp,
\* cash c and the trades ts recorded so far: the trade list returned
VecScan(k, cp, c, ts) ==
    IF k > Len(entry_candidates) THEN ts
    ELSE LET e == entry_candidates[k]
             r == ResolveExit(e, EntryPriceAt(e))
             t == VecTradeRecord(e, r, c)
         IN  IF e < cp THEN VecScan(k + 1, cp, c, ts)
             ELSE IF t.shares = 0
                  THEN VecScan(k + 1, NextScanPos(e, r.exit_idx), c, ts)
                  ELSE VecScan(k + 1, NextScanPos(e, r.exit_idx), VecCashAfter(c, t),
                               Append(ts, t))

\* the trade list of _execute_trades_vectorized for the inputs of the run
execute_trades_vectorized == VecScan(1, 1, initial_capital * MoneyDen, <<>>)

-----------------------------------------------------------------------------
(* _calculate_equity_from_trades_vectorized *)

\* dates.searchsorted(d): first bar whose date is >= d (n + 1 when none)
searchsorted(d) ==
    IF \E j \in 1..n : dates(j) >= d
    THEN CHOOSE j \in 1..n : dates(j) >= d /\ \A m \in 1..(j - 1) : dates(m) < d
    ELSE n + 1

\* one pass of the loop body over trade t, from curve eq and cash c
EquityAfterTrade(eq, c, t) ==
    LET e == searchsorted(t.entry_date)
        x == searchsorted(t.exit_date)
        c2 == c + t.profit
    IN  [ j \in 1..n |->
            IF j > x THEN c2
            ELSE IF j >= e
            THEN IF strategy_type = "long"
                 THEN c - CostOf(t.shares, t.entry_price) + t.shares * prices(j) * MoneyDen
                 ELSE c + CostOf(t.shares, t.entry_price) - t.shares * prices(j) * MoneyDen
            ELSE c ]

RECURSIVE EquityFold(_, _, _, _)
EquityFold(ts, m, eq, c) ==
    IF m > Len(ts) THEN eq
    ELSE EquityFold(ts, m + 1, EquityAfterTrade(eq, c, ts[m]), c + ts[m].profit)

calculate_equity_from_trades_vectorized(ts) ==
    EquityFold(ts, 1, [j \in 1..n |-> initial_capital * MoneyDen],
               initial_capital * MoneyDen)

-----------------------------------------------------------------------------
(* _classify_trades *)

\* Variant: strict comparison.
valid_mask_Strict(t) == t.holding_days < target_holding_days

valid_mask(t) == t.holding_days <= target_holding_days
forced_mask(t) == ~valid_mask(t) /\ t.forced_exit
excluded_mask(t) == ~valid_mask(t) /\ ~t.forced_exit

classify_trades(ts) ==
    IF ts = <<>> THEN <<<<>>, <<>>, <<>>>>
    ELSE << SelectSeq(ts, valid_mask), SelectSeq(ts, forced_mask),
            SelectSeq(ts, excluded_mask) >>

-----------------------------------------------------------------------------
(* _calculate_valid_equity_curve *)

RECURSIVE sorted_trades(_)
\* sorted(valid_trades, key=lambda x: x['entry_date']): stable insertion
sorted_trades(ts) ==
    IF ts = <<>> THEN <<>>
    ELSE LET s == sorted_trades(SubSeq(ts, 1, Len(ts) - 1))
             t == ts[Len(ts)]
             k == Cardinality({ a \in 1..Len(s) : s[a].entry_date <= t.entry_date })
         IN  SubSeq(s, 1, k) \o <<t>> \o SubSeq(s, k + 1, Len(s))

\* cash_after_entry = cash - cost - entry_commission
cash_after_entry(c, t) ==
    c - CostOf(t.shares, t.entry_price) - CommissionOf(t.shares, t.entry_price)

\* cash = cash_after_entry + proceeds - exit_commission - lending_cost
ValidCashAfter(c, t) ==
    cash_after_entry(c, t)
      + CostOf(t.shares, t.exit_price) - CommissionOf(t.shares, t.exit_price)
      - (IF strategy_type = "short"
         THEN LendingOf(t.shares, t.entry_price, t.holding_days) ELSE 0)

\* one pass of the loop body over trade t, from curve eq and cash c
ValidEquityAfterTrade(eq, c, t) ==
    LET e == searchsorted(t.entry_date)
        x == searchsorted(t.exit_date)
    IN  [ j \in 1..n |->
            IF j > x THEN ValidCashAfter(c, t)
            ELSE IF j >= e
            THEN IF strategy_type = "long"
                 THEN cash_after_entry(c, t) + t.shares * prices(j) * MoneyDen
                 ELSE cash_after_entry(c, t) + CostOf(t.shares, t.entry_price)
                        - t.shares * prices(j) * MoneyDen
            ELSE IF eq[j] = initial_capital * MoneyDen THEN c ELSE eq[j] ]

RECURSIVE ValidEquityFold(_, _, _, _)
ValidEquityFold(ts, m, eq, c) ==
    IF m > Len(ts) THEN eq
    ELSE ValidEquityFold(ts, m + 1, ValidEquityAfterTrade(eq, c, ts[m]),
                         ValidCashAfter(c, ts[m]))

\* Variant: every trade of the run is replayed, not only the list passed.
calculate_valid_equity_curve_AllTrades(vt) ==
    ValidEquityFold(sorted_trades(trades), 1,
                    [j \in 1..n |-> initial_capital * MoneyDen],
                    initial_capital * MoneyDen)

calculate_valid_equity_curve(vt) ==
    IF vt = <<>>
    THEN [j \in 1..n |-> initial_capital * MoneyDen]
    ELSE ValidEquityFold(sorted_trades(vt), 1,
                         [j \in 1..n |-> initial_capital * MoneyDen],
                         initial_capital * MoneyDen)

-----------------------------------------------------------------------------
(* PerformanceMetrics (src/src/backtest/metrics.py) *)

\* ((final - initial) / initial) * 100
calculate_total_return(eq) ==
    IF Len(eq) = 0 THEN NoReturn
    ELSE IF eq[1] = 0 THEN NoReturn
    ELSE [ num |-> eq[Len(eq)] - eq[1], den |-> eq[1] ]

RECURSIVE FracLeq(_, _)
\* a / b <= c / d for fractions with positive denominators, compared by
\* their integer parts and then by the inverted remainders
FracLeq(a, b) ==
    LET qa == a.num \div a.den
        qb == b.num \div b.den
        ra == a.num % a.den
        rb == b.num % b.den
    IN  IF qa # qb THEN qa < qb
        ELSE IF ra = 0 THEN TRUE
        ELSE IF rb = 0 THEN FALSE
        ELSE FracLeq([num |-> b.den, den |-> rb], [num |-> a.den, den |-> ra])

RECURSIVE equity_cummax_Global(_, _)
\* Variant: the peak of the whole trajectory instead of the running peak.
equity_cummax_Global(eq, t) ==
    IF Len(eq) = 1 THEN eq[1]
    ELSE Max(eq[Len(eq)], equity_cummax_Global(SubSeq(eq, 1, Len(eq) - 1), t))

RECURSIVE equity_cummax(_, _)
\* equity_curve.cummax() at position t
equity_cummax(eq, t) ==
    IF t = 1 THEN eq[1] ELSE Max(equity_cummax(eq, t - 1), eq[t])

\* (equity_curve - cummax) / cummax * 100 at position t, the sign carried by
\* the numerator
drawdown(eq, t) ==
    LET cm == equity_cummax(eq, t) IN
    IF cm > 0 THEN [ num |-> eq[t] - cm, den |-> cm ]
    ELSE IF cm < 0 THEN [ num |-> cm - eq[t], den |-> 0 - cm ]
    ELSE IF eq[t] = cm THEN NaN
    ELSE [ num |-> 0 - 1, den |-> 0 ]

\* abs(drawdown.min()); min() skips the positions that hold no number
calculate_max_drawdown(eq) ==
    IF Len(eq) = 0 THEN NoReturn
    ELSE LET numbers == { t \in 1..Len(eq) : drawdown(eq, t) # NaN } IN
         IF numbers = {} THEN NaN
         ELSE IF \E t \in numbers : drawdown(eq, t).den = 0 THEN Infinity
         ELSE LET m == CHOOSE t \in numbers :
                         \A u \in numbers : FracLeq(drawdown(eq, t), drawdown(eq, u))
                  d == drawdown(eq, m)
              IN  [ num |-> IF d.num < 0 THEN 0 - d.num ELSE d.num, den |-> d.den ]

RECURSIVE SumSeq(_)
\* sum(...) of a sequence of numbers
SumSeq(xs) == IF xs = <<>> THEN 0 ELSE xs[1] + SumSeq(Tail(xs))

\* the profits of the trades for which the comparison with 0 holds
winning(ts) == SelectSeq([a \in 1..Len(ts) |-> ts[a].profit], LAMBDA x : x > 0)
losing(ts) == SelectSeq([a \in 1..Len(ts) |-> ts[a].profit], LAMBDA x : x < 0)

\* Variant: a trade that breaks even counts as a win.
calculate_win_rate_Breakeven(ts) ==
    IF Len(ts) = 0 THEN NoReturn
    ELSE [ num |-> Len(ts) - Len(losing(ts)), den |-> Len(ts) ]

\* (winning_trades / len(trades)) * 100
calculate_win_rate(ts) ==
    IF Len(ts) = 0 THEN NoReturn
    ELSE [ num |-> Len(winning(ts)), den |-> Len(ts) ]

\* Variant: the gross loss keeps its sign.
gross_loss_Signed(ts) == SumSeq(losing(ts))

gross_profit(ts) == SumSeq(winning(ts))
gross_loss(ts) == IF SumSeq(losing(ts)) < 0 THEN 0 - SumSeq(losing(ts)) ELSE SumSeq(losing(ts))

\* gross_profit / gross_loss
calculate_profit_factor(ts) ==
    IF Len(ts) = 0 THEN NoFactor
    ELSE IF gross_loss(ts) = 0
         THEN IF gross_profit(ts) > 0 THEN Infinity ELSE NoFactor
         ELSE [ num |-> gross_profit(ts), den |-> gross_loss(ts) ]

\* len(r) * sum of squares - square of the sum: len * (len - 1) * variance
SquaredDeviation(r) ==
    Len(r) * SumSeq([a \in 1..Len(r) |-> r[a] * r[a]]) - SumSeq(r) * SumSeq(r)

\* returns.std(), the sample deviation, is no number for a single point
\* (0 / 0) and compares unequal to 0 then
std_is_zero(r) == Len(r) >= 2 /\ SquaredDeviation(r) = 0

\* (annual_return - risk_free_rate) / annual_std with risk_free_rate = 0:
\* mean * 252 / (std * sqrt(252)), whose square is
\* 252 * sum^2 * (len - 1) / (len * SquaredDeviation)
calculate_sharpe_ratio(r) ==
    IF Len(r) = 0 \/ std_is_zero(r) THEN NoSharpe
    ELSE IF Len(r) = 1 THEN NaNSharpe
    ELSE [ kind |-> "number",
           sign |-> IF SumSeq(r) > 0 THEN 1 ELSE IF SumSeq(r) < 0 THEN 0 - 1 ELSE 0,
           num |-> TradingDays * SumSeq(r) * SumSeq(r) * (Len(r) - 1),
           den |-> Len(r) * SquaredDeviation(r) ]

\* the dictionary of calculate_all_metrics, without annual_return and
\* sharpe_ratio
calculate_all_metrics(eq, ts) ==
    [ total_return |-> calculate_total_return(eq),
      max_drawdown |-> calculate_max_drawdown(eq),
      win_rate |-> calculate_win_rate(ts),
      profit_factor |-> calculate_profit_factor(ts),
      num_trades |-> Len(ts) ]

-----------------------------------------------------------------------------
(* Initial state: BacktestEngine.__init__ and the entry of run_backtest *)

\* no compatibility analysis under way
NoPool ==
    /\ strategies = <<>>
    /\ max_workers = 1
    /\ task = <<>>
    /\ frames = <<>>
    /\ futures = <<>>
    /\ collected = <<>>
    /\ results = <<>>

NoLimit == [none |-> TRUE, value |-> 0]
NoRequest == [strategy |-> "", limit |-> NoLimit, offset |-> 0]

\* an empty rankings directory
NoCache ==
    /\ ranking_files = <<>>
    /\ rankings = <<>>
    /\ request = NoRequest
    /\ loaded = <<>>

NoFile == [exists |-> FALSE, processed_count |-> 0, failed_count |-> 0,
           processed_codes |-> <<>>, failed_codes |-> <<>>]

\* no run of the batch under way
NoLocals ==
    /\ resume = FALSE
    /\ test_mode = FALSE
    /\ progress = NoFile
    /\ processed_codes = <<>>
    /\ failed_codes = <<>>
    /\ remaining_codes = <<>>
    /\ cursor = 0
    /\ strategy_results = <<>>

NoBatch ==
    /\ all_codes = <<>>
    /\ chunk_size = 1
    /\ progress_file = NoFile
    /\ NoLocals

NoServices == NoPool /\ NoCache /\ NoBatch

Init ==
    /\ strategy_type \in {"long", "short"}
    /\ \E m \in Modes :
         /\ use_vectorized = m[1]
         /\ trailing_stop_enabled = m[2]
    /\ \E len \in 1..MaxBars :
         \E cal \in Calendars :
           \E shape \in [1..len -> BarShapes(strategy_type,
                                             use_vectorized /\ trailing_stop_enabled)] :
             /\ df = [ j \in 1..len |->
                         [ Date |-> DateOf(cal, j), High |-> shape[j].High,
                           Low |-> shape[j].Low, Close |-> shape[j].Close ] ]
             /\ signals \in [1..len -> {0 - 1, 0, 1}]
    /\ initial_capital \in Capitals(strategy_type)
    /\ \E c \in Costs :
         /\ commission = c.commission
         /\ slippage = c.slippage
         /\ lending_rate = IF strategy_type = "long" THEN 0 ELSE c.lending_rate
    /\ \E h \in HoldingPolicies :
         /\ target_holding_days = h.target_days
         /\ max_holding_days = h.max_days
    /\ pc = "simulate"
    /\ i = 1
    /\ cand = 1
    /\ current_pos = 1
    /\ cash = initial_capital * MoneyDen
    /\ position = 0
    /\ entry_price = 0
    /\ entry_date = NoDate
    /\ trades = <<>>
    /\ equity = <<>>
    /\ valid_trades = <<>>
    /\ forced_trades = <<>>
    /\ excluded_trades = <<>>
    /\ valid_equity_curve = <<>>
    /\ total_return = NoReturn
    /\ num_trades = 0
    /\ equity_curve = <<>>
    /\ returns = <<>>
    /\ trade_list = <<>>
    /\ max_drawdown = NoReturn
    /\ sharpe_ratio = NoSharpe
    /\ win_rate = NoReturn
    /\ profit_factor = NoFactor
    /\ NoServices

\* the locals of run_backtest and of the simulators before the first bar
StartOfRun ==
    /\ NoServices
    /\ pc = "simulate"
    /\ i = 1
    /\ cand = 1
    /\ current_pos = 1
    /\ cash = initial_capital * MoneyDen
    /\ position = 0
    /\ entry_price = 0
    /\ entry_date = NoDate
    /\ trades = <<>>
    /\ equity = <<>>
    /\ valid_trades = <<>>
    /\ forced_trades = <<>>
    /\ excluded_trades = <<>>
    /\ valid_equity_curve = <<>>
    /\ total_return = NoReturn
    /\ num_trades = 0
    /\ equity_curve = <<>>
    /\ returns = <<>>
    /\ trade_list = <<>>
    /\ max_drawdown = NoReturn
    /\ sharpe_ratio = NoSharpe
    /\ win_rate = NoReturn
    /\ profit_factor = NoFactor

\* runs with commission, slippage and lending rates
CostInit ==
    /\ strategy_type \in {"long", "short"}
    /\ \E m \in Modes :
         /\ use_vectorized = m[1]
         /\ trailing_stop_enabled = m[2]
    /\ \E len \in 1..MaxCostBars :
         \E cal \in Calendars :
           \E shape \in [1..len -> CostBarShapes(strategy_type)] :
             /\ df = [ j \in 1..len |->
                         [ Date |-> DateOf(cal, j), High |-> shape[j].High,
                           Low |-> shape[j].Low, Close |-> shape[j].Close ] ]
             /\ signals \in [1..len -> {0 - 1, 0, 1}]
    /\ initial_capital \in CostCapitals(strategy_type)
    /\ \E c \in CostRates :
         /\ commission = c.commission
         /\ slippage = c.slippage
         /\ lending_rate = IF strategy_type = "long" THEN 0 ELSE c.lending_rate
    /\ \E h \in HoldingPolicies :
         /\ target_holding_days = h.target_days
         /\ max_holding_days = h.max_days
    /\ StartOfRun

\* long runs through a collapse of the price
CrashInit ==
    /\ strategy_type = "long"
    /\ \E m \in Modes :
         /\ use_vectorized = m[1]
         /\ trailing_stop_enabled = m[2]
    /\ \E len \in 1..MaxCostBars :
         \E cal \in Calendars :
           \E close \in [1..len -> CrashCloses] :
             /\ \A j \in 1..(len - 1) : close[j + 1] <= close[j]
             /\ df = [ j \in 1..len |->
                         [ Date |-> DateOf(cal, j), High |-> close[j],
                           Low |-> close[j], Close |-> close[j] ] ]
             /\ signals \in [1..len -> {0 - 1, 0, 1}]
    /\ initial_capital \in CrashCapitals
    /\ \E c \in CrashRates :
         /\ commission = c.commission
         /\ slippage = c.slippage
         /\ lending_rate = 0
    /\ \E h \in HoldingPolicies :
         /\ target_holding_days = h.target_days
         /\ max_holding_days = h.max_days
    /\ StartOfRun

\* runs on frames that were not validated by the caller
UncheckedInit ==
    /\ strategy_type \in {"long", "short"}
    /\ \E m \in Modes :
         /\ use_vectorized = m[1]
         /\ trailing_stop_enabled = m[2]
    /\ \E len \in 1..MaxCostBars :
         \E cal \in Calendars :
           \E shape \in [1..len -> UncheckedBarShapes(strategy_type)] :
             /\ df = [ j \in 1..len |->
                         [ Date |-> DateOf(cal, j), High |-> shape[j].High,
                           Low |-> shape[j].Low, Close |-> shape[j].Close ] ]
             /\ signals \in [1..len -> {0 - 1, 0, 1}]
    /\ initial_capital \in Capitals(strategy_type)
    /\ \E c \in Costs :
         /\ commission = c.commission
         /\ slippage = c.slippage
         /\ lending_rate = IF strategy_type = "long" THEN 0 ELSE c.lending_rate
    /\ \E h \in HoldingPolicies :
         /\ target_holding_days = h.target_days
         /\ max_holding_days = h.max_days
    /\ StartOfRun

-----------------------------------------------------------------------------
(* _execute_trades_vectorized: one action per pass of the loop over          *)
(* entry_candidates, and the return                                          *)

VecLoop == pc = "simulate" /\ use_vectorized /\ cand <= Len(entry_candidates)

\* if entry_idx < current_pos: continue
VecSkipCandidate ==
    /\ VecLoop
    /\ InOpenSpan(entry_candidates[cand])
    /\ cand' = cand + 1
    /\ UNCHANGED <<services, inputs, pc, i, current_pos, cash, position, entry_price,
                   entry_date, trades, equity, buckets, result, call>>

\* if position == 0: current_pos = exit_idx + 1; continue
VecNoShares ==
    /\ VecLoop
    /\ ~InOpenSpan(entry_candidates[cand])
    /\ LET e == entry_candidates[cand]
           r == ResolveExit(e, EntryPriceAt(e))
       IN  /\ SharesFor(cash, EntryPriceAt(e)) = 0
           /\ current_pos' = NextScanPos(e, r.exit_idx)
    /\ cand' = cand + 1
    /\ UNCHANGED <<services, inputs, pc, i, cash, position, entry_price, entry_date,
                   trades, equity, buckets, result, call>>

VecTrade ==
    /\ VecLoop
    /\ ~InOpenSpan(entry_candidates[cand])
    /\ LET e == entry_candidates[cand]
           r == ResolveExit(e, EntryPriceAt(e))
           t == VecTradeRecord(e, r, cash)
       IN  /\ SharesFor(cash, EntryPriceAt(e)) # 0
           /\ trades' = Append(trades, t)
           /\ cash' = VecCashAfter(cash, t)
           /\ current_pos' = NextScanPos(e, r.exit_idx)
    /\ cand' = cand + 1
    /\ UNCHANGED <<services, inputs, pc, i, position, entry_price, entry_date, equity,
                   buckets, result, call>>

VecReturn ==
    /\ pc = "simulate" /\ use_vectorized /\ cand > Len(entry_candidates)
    /\ equity' = calculate_equity_from_trades_vectorized(trades)
    /\ pc' = "classify"
    /\ UNCHANGED <<services, inputs, i, cand, current_pos, cash, position, entry_price,
                   entry_date, trades, buckets, result, call>>

-----------------------------------------------------------------------------
(* _execute_trades: one action per pass of the loop over the bars, and the   *)
(* close of a position left at the end of the data                          *)

BarLoop == pc = "simulate" /\ ~use_vectorized /\ i <= n

current_equity ==
    IF position = 0 THEN cash
    ELSE IF strategy_type = "long"
         THEN cash + position * prices(i) * MoneyDen
         ELSE cash + CostOf(position, entry_price) - position * prices(i) * MoneyDen

force_exit ==
    position > 0 /\ entry_date # NoDate /\ dates(i) - entry_date >= max_holding_days

\* the trade record of the open position closed at date d and price xp
\* with exit commission fee
BarTradeRecord(d, xp, fee, forced, reason) ==
    LET hd == IF entry_date # NoDate THEN d - entry_date ELSE 0
        lending_cost == IF strategy_type = "short" /\ entry_date # NoDate
                        THEN LendingOf(position, entry_price, hd) ELSE 0
    IN  [ entry_date |-> entry_date,
          exit_date |-> d,
          entry_price |-> entry_price,
          exit_price |-> xp,
          shares |-> position,
          profit |-> IF strategy_type = "long"
                     THEN CostOf(position, xp) - CostOf(position, entry_price) - 2 * fee
                     ELSE CostOf(position, entry_price) - CostOf(position, xp) - 2 * fee
                          - lending_cost,
          holding_days |-> hd,
          forced_exit |-> forced,
          within_target_period |-> hd <= target_holding_days,
          exit_reason |-> reason ]

\* cash += proceeds - commission_cost - lending_cost
BarCashAfter(xp, fee, t) ==
    cash + CostOf(position, xp) - fee
         - (IF strategy_type = "short" /\ entry_date # NoDate
            THEN LendingOf(position, entry_price, t.holding_days) ELSE 0)

\* if signal == 1 and position == 0.  At an entry price of 0 the quotient
\* cash / entry_price is not a finite number and int() raises.
BarEnter ==
    /\ BarLoop
    /\ signals[i] = 1 /\ position = 0
    /\ equity' = Append(equity, current_equity)
    /\ LET ep == EntryPriceAt(i)
           sh == SharesFor(cash, ep)
       IN  /\ entry_price' = ep
           /\ IF ep = 0
              THEN /\ pc' = "raised"
                   /\ UNCHANGED <<position, cash, entry_date, i>>
              ELSE /\ position' = sh
                   /\ cash' = IF sh > 0
                              THEN cash - CostOf(sh, ep) - CommissionOf(sh, ep)
                              ELSE cash
                   /\ entry_date' = IF sh > 0 THEN dates(i) ELSE entry_date
                   /\ i' = i + 1
                   /\ UNCHANGED pc
    /\ UNCHANGED <<services, inputs, cand, current_pos, trades, buckets, result, call>>

\* elif (signal == -1 or force_exit) and position > 0
BarExit ==
    /\ BarLoop
    /\ ~(signals[i] = 1 /\ position = 0)
    /\ (signals[i] = 0 - 1 \/ force_exit) /\ position > 0
    /\ equity' = Append(equity, current_equity)
    /\ LET xp == ExitPriceAt(i)
           fee == CommissionOf(position, xp)
           t == BarTradeRecord(dates(i), xp, fee, force_exit,
                               IF force_exit THEN "forced_max" ELSE "signal")
       IN  /\ trades' = Append(trades, t)
           /\ cash' = BarCashAfter(xp, fee, t)
    /\ position' = 0
    /\ entry_date' = NoDate
    /\ i' = i + 1
    /\ UNCHANGED <<services, inputs, pc, cand, current_pos, entry_price, buckets, result, call>>

\* neither branch taken
BarHold ==
    /\ BarLoop
    /\ ~(signals[i] = 1 /\ position = 0)
    /\ ~((signals[i] = 0 - 1 \/ force_exit) /\ position > 0)
    /\ equity' = Append(equity, current_equity)
    /\ i' = i + 1
    /\ UNCHANGED <<services, inputs, pc, cand, current_pos, cash, position, entry_price,
                   entry_date, trades, buckets, result, call>>

\* after the loop: if position > 0, close at the last Close (no slippage)
BarFinalClose ==
    /\ pc = "simulate" /\ ~use_vectorized /\ i > n
    /\ position > 0
    /\ LET xp == prices(n) * RateDen
           fee == CommissionOf(position, xp)
           t == BarTradeRecord(dates(n), xp, fee, TRUE, "end_of_data")
       IN  /\ trades' = Append(trades, t)
           /\ cash' = BarCashAfter(xp, fee, t)
    /\ pc' = "classify"
    /\ UNCHANGED <<services, inputs, i, cand, current_pos, position, entry_price,
                   entry_date, equity, buckets, result, call>>

BarReturn ==
    /\ pc = "simulate" /\ ~use_vectorized /\ i > n
    /\ ~(position > 0)
    /\ pc' = "classify"
    /\ UNCHANGED <<services, inputs, i, cand, current_pos, cash, position, entry_price,
                   entry_date, trades, equity, buckets, result, call>>

-----------------------------------------------------------------------------
(* run_backtest after the simulator *)

Classify ==
    /\ pc = "classify"
    /\ valid_trades' = classify_trades(trades)[1]
    /\ forced_trades' = classify_trades(trades)[2]
    /\ excluded_trades' = classify_trades(trades)[3]
    /\ pc' = "report"
    /\ UNCHANGED <<services, inputs, i, cand, current_pos, cash, position, entry_price,
                   entry_date, trades, equity, result, call>>

\* Variant: the metrics are computed on every trade of the run.
metrics_trades_All == trades

\* the trade list run_backtest passes to calculate_all_metrics
metrics_trades == valid_trades

\* valid_equity_curve, PerformanceMetrics.calculate_all_metrics, BacktestResult
\* (annual_return and sharpe_ratio are not carried)
Report ==
    /\ pc = "report"
    /\ valid_equity_curve' = calculate_valid_equity_curve(valid_trades)
    /\ LET metrics == calculate_all_metrics(calculate_valid_equity_curve(valid_trades),
                                            metrics_trades)
       IN  /\ total_return' = metrics.total_return
           /\ max_drawdown' = metrics.max_drawdown
           /\ win_rate' = metrics.win_rate
           /\ profit_factor' = metrics.profit_factor
           /\ num_trades' = metrics.num_trades
    /\ pc' = "done"
    /\ UNCHANGED <<services, inputs, i, cand, current_pos, cash, position, entry_price,
                   entry_date, trades, equity, buckets, args, sharpe_ratio>>

Next ==
    \/ VecSkipCandidate
    \/ VecNoShares
    \/ VecTrade
    \/ VecReturn
    \/ BarEnter
    \/ BarExit
    \/ BarHold
    \/ BarFinalClose
    \/ BarReturn
    \/ Classify
    \/ Report

Spec == Init /\ [][Next]_vars

CostSpec == CostInit /\ [][Next]_vars

UncheckedSpec == UncheckedInit /\ [][Next]_vars

CrashSpec == CrashInit /\ [][Next]_vars

-----------------------------------------------------------------------------
(* PerformanceMetrics called on arguments of its own *)

\* no backtest under way
NoRun ==
    /\ df = <<>>
    /\ signals = <<>>
    /\ strategy_type = "long"
    /\ initial_capital = 0
    /\ commission = 0
    /\ slippage = 0
    /\ lending_rate = 0
    /\ target_holding_days = 0
    /\ max_holding_days = 0
    /\ trailing_stop_enabled = FALSE
    /\ use_vectorized = FALSE
    /\ i = 1
    /\ cand = 1
    /\ current_pos = 1
    /\ cash = 0
    /\ position = 0
    /\ entry_price = 0
    /\ entry_date = NoDate
    /\ trades = <<>>
    /\ equity = <<>>
    /\ valid_trades = <<>>
    /\ forced_trades = <<>>
    /\ excluded_trades = <<>>
    /\ valid_equity_curve = <<>>
    /\ total_return = NoReturn
    /\ num_trades = 0

\* no metric being computed
NoCall ==
    /\ equity_curve = <<>>
    /\ returns = <<>>
    /\ trade_list = <<>>
    /\ max_drawdown = NoReturn
    /\ sharpe_ratio = NoSharpe
    /\ win_rate = NoReturn
    /\ profit_factor = NoFactor

MetricsInit ==
    /\ \/ /\ pc = "call"
          /\ \E len \in 0..MaxCurveLen : equity_curve \in [1..len -> CurveValues]
          /\ returns = <<>>
          /\ trade_list = <<>>
       \/ /\ pc = "call_sharpe_ratio"
          /\ \E len \in 0..MaxCurveLen : returns \in [1..len -> ReturnValues]
          /\ equity_curve = <<>>
          /\ trade_list = <<>>
       \/ /\ pc \in {"call_win_rate", "call_profit_factor"}
          /\ \E len \in 0..MaxTradeList :
                \E profit \in [1..len -> ProfitValues] :
                    trade_list = [a \in 1..len |-> [profit |-> profit[a]]]
          /\ equity_curve = <<>>
          /\ returns = <<>>
    /\ max_drawdown = NoReturn
    /\ sharpe_ratio = NoSharpe
    /\ win_rate = NoReturn
    /\ profit_factor = NoFactor
    /\ NoRun
    /\ NoServices

MaxDrawdownCall ==
    /\ pc = "call"
    /\ max_drawdown' = calculate_max_drawdown(equity_curve)
    /\ pc' = "returned"
    /\ UNCHANGED <<services, run, args, sharpe_ratio, win_rate, profit_factor>>

SharpeRatioCall ==
    /\ pc = "call_sharpe_ratio"
    /\ sharpe_ratio' = calculate_sharpe_ratio(returns)
    /\ pc' = "returned_sharpe_ratio"
    /\ UNCHANGED <<services, run, args, max_drawdown, win_rate, profit_factor>>

WinRateCall ==
    /\ pc = "call_win_rate"
    /\ win_rate' = calculate_win_rate(trade_list)
    /\ pc' = "returned_win_rate"
    /\ UNCHANGED <<services, run, args, max_drawdown, sharpe_ratio, profit_factor>>

ProfitFactorCall ==
    /\ pc = "call_profit_factor"
    /\ profit_factor' = calculate_profit_factor(trade_list)
    /\ pc' = "returned_profit_factor"
    /\ UNCHANGED <<services, run, args, max_drawdown, sharpe_ratio, win_rate>>

MetricsNext ==
    \/ MaxDrawdownCall
    \/ SharpeRatioCall
    \/ WinRateCall
    \/ ProfitFactorCall

MetricsSpec == MetricsInit /\ [][MetricsNext]_vars

-----------------------------------------------------------------------------
(* CompatibilityAnalyzer: one instrument, its strategies on the thread pool *)

\* scores are held in thousandths of a percent
ScoreDen == 1000

\* the names of STRATEGY_MAP, in the order of get_all_strategies
StrategyNames ==
    << "breakout_new_high_long", "pullback_buy_long", "retry_new_high_long",
       "trend_reversal_up_long" >>

\* result bundles with whole percentages, one per branch of _calculate_score
Bundles ==
    { [num_trades |-> 0, total_return |-> 0, win_rate |-> 0, max_drawdown |-> 0],
      [num_trades |-> 6, total_return |-> 12, win_rate |-> 50, max_drawdown |-> 25],
      [num_trades |-> 2, total_return |-> 0 - 20, win_rate |-> 0, max_drawdown |-> 45] }

NoFrame == [engine |-> 0, backtest_result |-> 0, score |-> 0, reason |-> <<>>]
NoFuture == <<>>

\* engine.run_backtest(df, strategy, stock_code): the engine keeps nothing
\* between calls, the bundle is that of the frame and the strategy
run_backtest(engine, strategy) == strategy.backtest

calculate_base_score(r) ==
    LET trade_score == Min(30, r.num_trades * 3) * ScoreDen
        win_score == Min(30 * ScoreDen, r.win_rate * 300)
        return_score ==
            IF r.total_return >= 20
            THEN Min(40 * ScoreDen, 30 * ScoreDen + (r.total_return - 20) * 500)
            ELSE IF r.total_return >= 10
            THEN 20 * ScoreDen + (r.total_return - 10) * ScoreDen
            ELSE IF r.total_return >= 0
            THEN 10 * ScoreDen + r.total_return * ScoreDen
            ELSE IF r.total_return >= 0 - 10
            THEN Max(0, 10 * ScoreDen + r.total_return * ScoreDen)
            ELSE 0
    IN  trade_score + win_score + return_score

calculate_score(r) ==
    IF r.num_trades = 0 THEN 0
    ELSE IF r.total_return < 0 - 10
    THEN Max(0, Min(20 * ScoreDen, 20 * ScoreDen + r.total_return * ScoreDen))
    ELSE IF r.win_rate < 40 /\ r.total_return <= 0
    THEN Min(30 * ScoreDen, 15 * ScoreDen + r.win_rate * 375 + r.total_return * 500)
    ELSE IF r.win_rate < 40
    THEN Min(50 * ScoreDen, 30 * ScoreDen + Min(20 * ScoreDen, r.total_return * 500))
    ELSE IF r.num_trades < 5
    THEN Min(70 * ScoreDen, calculate_base_score(r))
    ELSE calculate_base_score(r)

\* the lines of the reason, each by the branch that wrote it
generate_reason(r, score) ==
    IF r.num_trades = 0 THEN << "no_trades" >>
    ELSE << IF score >= 80 * ScoreDen THEN "very_high"
            ELSE IF score >= 60 * ScoreDen THEN "high"
            ELSE IF score >= 40 * ScoreDen THEN "medium"
            ELSE IF score >= 20 * ScoreDen THEN "low"
            ELSE "very_low",
            IF r.total_return >= 20 THEN "high_return"
            ELSE IF r.total_return >= 10 THEN "medium_return"
            ELSE IF r.total_return >= 0 THEN "small_return"
            ELSE IF r.total_return >= 0 - 10 THEN "small_loss"
            ELSE "large_loss",
            IF r.win_rate >= 60 THEN "high_win_rate"
            ELSE IF r.win_rate >= 40 THEN "medium_win_rate"
            ELSE "low_win_rate",
            IF r.num_trades >= 10 THEN "many_trades"
            ELSE IF r.num_trades >= 5 THEN "some_trades"
            ELSE "few_trades",
            IF r.max_drawdown < 20 THEN "small_drawdown"
            ELSE IF r.max_drawdown < 40 THEN "medium_drawdown"
            ELSE "large_drawdown" >>

\* results[name] = entry
Put(d, name, entry) ==
    [ x \in DOMAIN d \cup {name} |-> IF x = name THEN entry ELSE d[x] ]

RECURSIVE SequentialFold(_, _)
\* the loop of _calculate_compatibility_sequential over the first k strategies
SequentialFold(ss, k) ==
    IF k = 0 THEN <<>>
    ELSE LET backtest_result == run_backtest(0, ss[k])
             score == calculate_score(backtest_result)
             reason == generate_reason(backtest_result, score)
         IN  Put(SequentialFold(ss, k - 1), ss[k].name,
                 [score |-> score, reason |-> reason,
                  backtest_result |-> backtest_result])

calculate_compatibility_sequential(ss) == SequentialFold(ss, Len(ss))

\* Variant: the locals of every call live in one place.
frame_Shared(k) == 1

\* the frame that holds the local variables of the k-th call
frame(k) == k

PoolInit ==
    /\ \E len \in 1..MaxStrategies :
         /\ \E outcome \in [1..len -> Bundles] :
              strategies = [k \in 1..len |->
                              [name |-> StrategyNames[k], backtest |-> outcome[k]]]
         /\ task = [k \in 1..len |-> "submitted"]
         /\ frames = [k \in 1..len |-> NoFrame]
         /\ futures = [k \in 1..len |-> NoFuture]
    /\ max_workers \in {1, 2}
    /\ collected = <<>>
    /\ results = <<>>
    /\ pc = "as_completed"
    /\ NoRun
    /\ NoCall
    /\ NoCache
    /\ NoBatch

Running == { k \in 1..Len(task) : task[k] \notin {"submitted", "returned"} }

\* a worker of the pool takes the oldest call waiting in the queue:
\* engine = BacktestEngine(self.config_path)
WorkerStart(k) ==
    /\ task[k] = "submitted"
    /\ \A j \in 1..(k - 1) : task[j] # "submitted"
    /\ Cardinality(Running) < max_workers
    /\ frames' = [frames EXCEPT ![frame(k)].engine = k]
    /\ task' = [task EXCEPT ![k] = "engine"]
    /\ UNCHANGED <<run, pc, call, cache, batch, strategies, max_workers, futures, collected, results>>

\* backtest_result = engine.run_backtest(df, strategy, stock_code)
WorkerBacktest(k) ==
    /\ task[k] = "engine"
    /\ frames' = [frames EXCEPT ![frame(k)].backtest_result =
                      run_backtest(frames[frame(k)].engine, strategies[k])]
    /\ task' = [task EXCEPT ![k] = "backtest"]
    /\ UNCHANGED <<run, pc, call, cache, batch, strategies, max_workers, futures, collected, results>>

\* score = self._calculate_score(backtest_result)
WorkerScore(k) ==
    /\ task[k] = "backtest"
    /\ frames' = [frames EXCEPT ![frame(k)].score =
                      calculate_score(frames[frame(k)].backtest_result)]
    /\ task' = [task EXCEPT ![k] = "score"]
    /\ UNCHANGED <<run, pc, call, cache, batch, strategies, max_workers, futures, collected, results>>

\* reason = self._generate_reason(backtest_result, score)
WorkerReason(k) ==
    /\ task[k] = "score"
    /\ frames' = [frames EXCEPT ![frame(k)].reason =
                      generate_reason(frames[frame(k)].backtest_result,
                                      frames[frame(k)].score)]
    /\ task' = [task EXCEPT ![k] = "reason"]
    /\ UNCHANGED <<run, pc, call, cache, batch, strategies, max_workers, futures, collected, results>>

\* return strategy.name(), {...}
WorkerReturn(k) ==
    /\ task[k] = "reason"
    /\ futures' = [futures EXCEPT ![k] =
                      << strategies[k].name,
                         [score |-> frames[frame(k)].score,
                          reason |-> frames[frame(k)].reason,
                          backtest_result |-> frames[frame(k)].backtest_result] >>]
    /\ task' = [task EXCEPT ![k] = "returned"]
    /\ UNCHANGED <<run, pc, call, cache, batch, strategies, max_workers, frames, collected, results>>

\* for future in as_completed(futures): results[strategy_name] = result
Collect(k) ==
    /\ pc = "as_completed"
    /\ task[k] = "returned"
    /\ \A a \in 1..Len(collected) : collected[a] # k
    /\ collected' = Append(collected, k)
    /\ results' = Put(results, futures[k][1], futures[k][2])
    /\ UNCHANGED <<run, pc, call, cache, batch, strategies, max_workers, task, frames, futures>>

\* return results
PoolReturn ==
    /\ pc = "as_completed"
    /\ Len(collected) = Len(strategies)
    /\ pc' = "returned"
    /\ UNCHANGED <<run, call, services>>

PoolNext ==
    \/ \E k \in 1..Len(strategies) : WorkerStart(k)
    \/ \E k \in 1..Len(strategies) : WorkerBacktest(k)
    \/ \E k \in 1..Len(strategies) : WorkerScore(k)
    \/ \E k \in 1..Len(strategies) : WorkerReason(k)
    \/ \E k \in 1..Len(strategies) : WorkerReturn(k)
    \/ \E k \in 1..Len(strategies) : Collect(k)
    \/ PoolReturn

PoolSpec == PoolInit /\ [][PoolNext]_vars

-----------------------------------------------------------------------------
(* ResultCache: the ranking files *)

Str(x) == [kind |-> "string", str |-> x, num |-> 0]
Num(x) == [kind |-> "number", str |-> "", num |-> x]
Punct(x) == [kind |-> "punct", str |-> x, num |-> 0]
Newline == Punct("\n")

\* ranking dictionaries as key/value pairs in insertion order: one as the
\* batch builds it, one that carries a rank from an earlier load
RankingItems ==
    { << <<"code", Str("9432")>>, <<"score", Num(85)>> >>,
      << <<"rank", Num(7)>>, <<"code", Str("7203")>>, <<"score", Num(72)>> >> }

RankingNames == {"breakout_new_high_long", "test_strategy"}

Keys(item) == { item[a][1] : a \in 1..Len(item) }

\* Variant: a rank the item already carries is kept.
SetRank_Keep(item, r) ==
    IF "rank" \in Keys(item) THEN item ELSE Append(item, <<"rank", Num(r)>>)

\* item['rank'] = i
SetRank(item, r) ==
    IF "rank" \in Keys(item)
    THEN [a \in 1..Len(item) |->
              IF item[a][1] = "rank" THEN <<"rank", Num(r)>> ELSE item[a]]
    ELSE Append(item, <<"rank", Num(r)>>)

RECURSIVE Members(_, _)
\* "key": value, "key": value, ... for the first k pairs
Members(item, k) ==
    IF k = 0 THEN <<>>
    ELSE (IF k = 1 THEN <<>> ELSE Members(item, k - 1) \o <<Punct(",")>>)
         \o <<Str(item[k][1]), Punct(":"), item[k][2]>>

\* json.dumps(item, ensure_ascii=False)
dumps(item) == <<Punct("{")>> \o Members(item, Len(item)) \o <<Punct("}")>>

\* line.strip()
strip(line) ==
    IF line # <<>> /\ line[Len(line)] = Newline
    THEN SubSeq(line, 1, Len(line) - 1) ELSE line

\* json.loads(text) of an object
loads(text) ==
    [a \in 1..((Len(text) - 1) \div 4) |-> <<text[4 * a - 2].str, text[4 * a]>>]

\* the lines save_ranking writes
RankingLines(items) ==
    [a \in 1..Len(items) |-> dumps(SetRank(items[a], a)) \o <<Newline>>]

RECURSIVE ReadLines(_, _, _, _)
\* the loop of load_ranking from line number a (enumerate counts from 0)
ReadLines(lines, a, req, acc) ==
    IF a >= Len(lines) THEN acc
    ELSE IF a < req.offset THEN ReadLines(lines, a + 1, req, acc)
    ELSE IF ~req.limit.none /\ Len(acc) >= req.limit.value THEN acc
    ELSE ReadLines(lines, a + 1, req, Append(acc, loads(strip(lines[a + 1]))))

CacheInit ==
    /\ NoCache
    /\ pc = "idle"
    /\ NoRun
    /\ NoCall
    /\ NoPool
    /\ NoBatch

\* ResultCache.save_ranking(strategy, items)
SaveRanking(strategy, items) ==
    /\ ranking_files' = Put(ranking_files, strategy, RankingLines(items))
    /\ rankings' = Put(rankings, strategy, items)
    /\ pc' = "saved"
    /\ UNCHANGED <<run, call, pool, batch, request, loaded>>

\* ResultCache.load_ranking(strategy, limit, offset)
LoadRanking(strategy, limit, offset) ==
    /\ request' = [strategy |-> strategy, limit |-> limit, offset |-> offset]
    /\ loaded' = IF strategy \notin DOMAIN ranking_files THEN <<>>
                 ELSE ReadLines(ranking_files[strategy], 0, request', <<>>)
    /\ pc' = "loaded"
    /\ UNCHANGED <<run, call, pool, batch, ranking_files, rankings>>

CacheNext ==
    \/ \E strategy \in RankingNames :
         \E len \in 0..MaxRankings :
           \E items \in [1..len -> RankingItems] : SaveRanking(strategy, items)
    \/ \E strategy \in RankingNames :
         \E limit \in {NoLimit} \cup { [none |-> FALSE, value |-> v] : v \in 0..(MaxRankings - 1) } :
           \E offset \in 0..(MaxRankings - 1) : LoadRanking(strategy, limit, offset)

CacheSpec == CacheInit /\ [][CacheNext]_vars

-----------------------------------------------------------------------------
(* DailyBatchProcessor.run: chunks, progress file, interruption and resume *)

\* stock_df['コード'].astype(str).tolist()
StockList == << "1332", "7203", "9432" >>

\* s.name() for s in self.strategies, written by their STRATEGY_MAP keys
BatchStrategies == { StrategyNames[k] : k \in 1..2 }

\* the score process_single_stock reports for a code
ScoreOf(code) == IF code = "1332" THEN 60 ELSE IF code = "7203" THEN 72 ELSE 85

SeqSet(xs) == { xs[a] : a \in 1..Len(xs) }

\* the entry appended to strategy_results[strategy_name]
ResultItem(code) == << <<"code", Str(code)>>, <<"score", Num(ScoreOf(code))>> >>

ItemScore(item) == item[CHOOSE a \in 1..Len(item) : item[a][1] = "score"][2].num

RECURSIVE InsertByScore(_, _)
\* item placed behind every entry whose score is not below its own
InsertByScore(sorted, item) ==
    IF sorted = <<>> THEN <<item>>
    ELSE IF ItemScore(sorted[1]) >= ItemScore(item)
         THEN <<sorted[1]>> \o InsertByScore(Tail(sorted), item)
         ELSE <<item>> \o sorted

RECURSIVE SortByScore(_)
\* sorted(results, key=lambda x: x['score'], reverse=True), a stable sort
SortByScore(items) ==
    IF items = <<>> THEN <<>>
    ELSE InsertByScore(SortByScore(SubSeq(items, 1, Len(items) - 1)),
                       items[Len(items)])

\* ResultCache.save_progress(processed_codes, failed_codes)
save_progress(processed, failed) ==
    [exists |-> TRUE, processed_count |-> Len(processed),
     failed_count |-> Len(failed), processed_codes |-> processed,
     failed_codes |-> failed]

\* [c for c in all_codes if c not in processed_codes]
remaining(codes, processed) == SelectSeq(codes, LAMBDA c : c \notin SeqSet(processed))

BatchInit ==
    /\ \E len \in 1..MaxCodes : all_codes = SubSeq(StockList, 1, len)
    /\ chunk_size \in {1, 2}
    /\ progress_file = NoFile
    /\ NoLocals
    /\ pc = "stopped"
    /\ NoRun
    /\ NoCall
    /\ NoPool
    /\ NoCache

\* run(resume, test_mode=...) up to the chunk loop; runs are started while
\* the progress file lists fewer than MaxFailed failures
BatchRun(r, t) ==
    /\ pc \in {"stopped", "finished"}
    /\ progress_file.failed_count < MaxFailed
    /\ resume' = r
    /\ test_mode' = t
    /\ progress' = IF r THEN progress_file ELSE NoFile
    /\ processed_codes' = IF r /\ progress_file.exists
                          THEN progress_file.processed_codes ELSE <<>>
    /\ failed_codes' = IF r /\ progress_file.exists
                       THEN progress_file.failed_codes ELSE <<>>
    /\ remaining_codes' = remaining(all_codes, processed_codes')
    /\ cursor' = 0
    /\ strategy_results' = [name \in BatchStrategies |-> <<>>]
    /\ pc' = "chunk"
    /\ UNCHANGED <<run, call, pool, cache, all_codes, chunk_size, progress_file>>

\* one pass of the inner loop: process_single_stock(code, name) and the
\* bookkeeping of its result
ProcessStock(ok) ==
    /\ pc = "chunk"
    /\ cursor < Len(remaining_codes)
    /\ LET code == remaining_codes[cursor + 1] IN
         IF ok
         THEN /\ processed_codes' = Append(processed_codes, code)
              /\ strategy_results' =
                     [name \in BatchStrategies |->
                          Append(strategy_results[name], ResultItem(code))]
              /\ UNCHANGED failed_codes
         ELSE /\ failed_codes' = Append(failed_codes, code)
              /\ UNCHANGED <<processed_codes, strategy_results>>
    /\ cursor' = cursor + 1
    /\ pc' = IF (cursor + 1) % chunk_size = 0 \/ cursor + 1 = Len(remaining_codes)
             THEN "save_progress" ELSE "chunk"
    /\ UNCHANGED <<run, call, pool, cache, all_codes, chunk_size, progress_file,
                   resume, test_mode, progress, remaining_codes>>

\* the end of a chunk: if not test_mode: save_progress(...)
SaveProgress ==
    /\ pc = "save_progress"
    /\ progress_file' = IF test_mode THEN progress_file
                        ELSE save_progress(processed_codes, failed_codes)
    /\ pc' = "chunk"
    /\ UNCHANGED <<run, call, pool, cache, all_codes, chunk_size, locals>>

\* after the loops: save_ranking for every strategy
SaveRankings ==
    /\ pc = "chunk"
    /\ cursor = Len(remaining_codes)
    /\ ranking_files' =
           [name \in DOMAIN ranking_files \cup BatchStrategies |->
                IF name \in BatchStrategies
                THEN RankingLines(SortByScore(strategy_results[name]))
                ELSE ranking_files[name]]
    /\ rankings' =
           [name \in DOMAIN rankings \cup BatchStrategies |->
                IF name \in BatchStrategies
                THEN SortByScore(strategy_results[name])
                ELSE rankings[name]]
    /\ pc' = "clear_progress"
    /\ UNCHANGED <<run, call, pool, batch, request, loaded>>

\* if not test_mode: clear_progress(); return stats
ClearProgress ==
    /\ pc = "clear_progress"
    /\ progress_file' = IF test_mode THEN progress_file ELSE NoFile
    /\ pc' = "finished"
    /\ UNCHANGED <<run, call, pool, cache, all_codes, chunk_size, locals>>

\* the process is stopped: its locals are gone, the files stay
Interrupt ==
    /\ pc \in {"chunk", "save_progress", "clear_progress"}
    /\ resume' = FALSE
    /\ test_mode' = FALSE
    /\ progress' = NoFile
    /\ processed_codes' = <<>>
    /\ failed_codes' = <<>>
    /\ remaining_codes' = <<>>
    /\ cursor' = 0
    /\ strategy_results' = <<>>
    /\ pc' = "stopped"
    /\ UNCHANGED <<run, call, pool, cache, all_codes, chunk_size, progress_file>>

BatchNext ==
    \/ \E r \in BOOLEAN : \E t \in BOOLEAN : BatchRun(r, t)
    \/ \E ok \in BOOLEAN : ProcessStock(ok)
    \/ SaveProgress
    \/ SaveRankings
    \/ ClearProgress
    \/ Interrupt

BatchSpec == BatchInit /\ [][BatchNext]_vars

-----------------------------------------------------------------------------
(* Vocabulary of the properties, stated on the bars, the signals and the     *)
(* trade records only                                                        *)

BarOf(d) == CHOOSE j \in 1..n : dates(j) = d
EntryBar(t) == BarOf(t.entry_date)
ExitBar(t) == BarOf(t.exit_date)
TradeSet == { trades[a] : a \in 1..Len(trades) }

ExitSignalAt(j) == signals[j] = 0 - 1
ElapsedDays(e, j) == dates(j) - dates(e)
MaxHoldingAt(e, j) == j > e /\ ElapsedDays(e, j) >= max_holding_days

\* the best prices seen by a position entered at bar e at price ep, up to bar j
BestSoFar(e, ep, j) ==
    {ep} \cup { (IF strategy_type = "long" THEN highs(m) ELSE lows(m)) * RateDen :
                m \in (e + 1)..j }

\* the close of bar j retraces more than the threshold from the best price
Retraced(e, ep, j) ==
    /\ j > e
    /\ \E best \in BestSoFar(e, ep, j) :
         /\ \A b \in BestSoFar(e, ep, j) :
              IF strategy_type = "long" THEN b <= best ELSE b >= best
         /\ IF strategy_type = "long"
            THEN prices(j) * RateDen * RateDen < best * (RateDen - trailing_stop_long)
            ELSE prices(j) * RateDen * RateDen > best * (RateDen + trailing_stop_short)

TrailingAt(e, ep, j) == trailing_stop_enabled /\ Retraced(e, ep, j)

TriggerAt(e, ep, j) ==
    j > e /\ (ExitSignalAt(j) \/ TrailingAt(e, ep, j) \/ MaxHoldingAt(e, j))

NoTriggerIn(e, ep, lo, hi) == \A j \in lo..hi : ~TriggerAt(e, ep, j)

-----------------------------------------------------------------------------
(* Properties *)

\* C1: the trade list is ordered by entry time and non-overlapping: the exit
\* timestamp of each trade is <= the entry timestamp of the next one.
C1_TradesOrderedNonOverlapping ==
    pc = "done" =>
        \A a \in 1..(Len(trades) - 1) :
            /\ trades[a].entry_date <= trades[a + 1].entry_date
            /\ trades[a].exit_date <= trades[a + 1].entry_date

C1_Witness ==
    /\ pc = "done"
    /\ Len(trades) >= 2
    /\ \E b \in (EntryBar(trades[1]) + 1)..ExitBar(trades[1]) : signals[b] = 1

\* C2: at most one position is open at any bar; an Enter signal arriving
\* while a position is open opens nothing, at that bar or later: every entry
\* is at a bar carrying its own Enter signal, strictly after the exit bar of
\* every earlier trade.
C2_SinglePositionEnterIgnored ==
    pc = "done" =>
        /\ \A t \in TradeSet : signals[EntryBar(t)] = 1
        /\ \A a, b \in 1..Len(trades) :
              a < b => ExitBar(trades[a]) < EntryBar(trades[b])
        /\ \A t \in TradeSet :
              \A b \in (EntryBar(t) + 1)..ExitBar(t) :
                  signals[b] = 1 => \A u \in TradeSet : EntryBar(u) # b

C2_Witness ==
    /\ pc = "done"
    /\ \E t \in TradeSet :
          /\ ExitBar(t) < n
          /\ \E b \in (EntryBar(t) + 1)..ExitBar(t) : signals[b] = 1
          /\ \A b \in (ExitBar(t) + 1)..n : signals[b] # 1
          /\ t = trades[Len(trades)]

InBucket(t, bucket) == \E a \in 1..Len(bucket) : bucket[a] = t

\* C3: _classify_trades is a total partition: a trade is valid when
\* holding_days <= target_days, otherwise forced when forced_exit, otherwise
\* excluded; every trade is in exactly one bucket and the sizes add up.
C3_ClassifyPartition ==
    pc = "done" =>
        /\ Len(valid_trades) + Len(forced_trades) + Len(excluded_trades) = Len(trades)
        /\ \A t \in TradeSet :
              /\ InBucket(t, valid_trades) <=> t.holding_days <= target_holding_days
              /\ InBucket(t, forced_trades) <=>
                    (t.holding_days > target_holding_days /\ t.forced_exit)
              /\ InBucket(t, excluded_trades) <=>
                    (t.holding_days > target_holding_days /\ ~t.forced_exit)
        /\ trades = <<>> =>
              valid_trades = <<>> /\ forced_trades = <<>> /\ excluded_trades = <<>>

C3_Witness ==
    /\ pc = "done"
    /\ \E t \in TradeSet : t.holding_days = target_holding_days /\ InBucket(t, valid_trades)
    /\ forced_trades # <<>>

\* C4: two triggers on the exit bar resolve in the order Signal, TrailingStop,
\* ForcedMax, in both simulators.
C4_TieOrder ==
    pc = "done" =>
        \A t \in TradeSet :
            LET e == EntryBar(t)
                x == ExitBar(t)
                trail == TrailingAt(e, t.entry_price, x)
                maxh == MaxHoldingAt(e, x)
            IN  /\ (x > e /\ ExitSignalAt(x) /\ (trail \/ maxh)) =>
                      (t.exit_reason = "signal" /\ ~t.forced_exit)
                /\ (x > e /\ ~ExitSignalAt(x) /\ trail /\ maxh) =>
                      t.exit_reason = "trailing_stop"

\* C5: earliest bar wins in _execute_trades_vectorized: the exit bar is the
\* first bar after entry at which any of the three triggers fires, and the
\* last bar when none fires.
C5_EarliestBarWins ==
    (pc = "done" /\ use_vectorized) =>
        \A t \in TradeSet :
            LET e == EntryBar(t)
                x == ExitBar(t)
            IN  /\ e <= x
                /\ NoTriggerIn(e, t.entry_price, e + 1, x - 1)
                /\ x < n => TriggerAt(e, t.entry_price, x)

C5_Witness ==
    /\ pc = "done" /\ use_vectorized
    /\ \E t \in TradeSet :
          /\ ExitBar(t) >= EntryBar(t) + 2
          /\ ExitBar(t) < n
          /\ t.exit_reason = "forced_max"

\* C6: a position whose first trigger is an Exit signal at bar j (no trailing
\* stop or max-holding trigger before j) closes at j with exit_reason Signal
\* and forced_exit false, for j up to and including the last bar.
C6_SignalExit ==
    pc = "done" =>
        \A t \in TradeSet :
            \A j \in (EntryBar(t) + 1)..n :
                ( /\ ExitSignalAt(j)
                  /\ \A m \in (EntryBar(t) + 1)..(j - 1) :
                        /\ ~ExitSignalAt(m)
                        /\ ~TrailingAt(EntryBar(t), t.entry_price, m)
                        /\ ~MaxHoldingAt(EntryBar(t), m) )
                => (ExitBar(t) = j /\ t.exit_reason = "signal" /\ ~t.forced_exit)

\* C7: a position for which no trigger fires up to the end of the data is
\* closed at the last bar by exactly one trade with exit_reason EndOfData and
\* forced_exit true; no position stays open without a trade record.
C7_EndOfData ==
    pc = "done" =>
        /\ \A t \in TradeSet :
              NoTriggerIn(EntryBar(t), t.entry_price, EntryBar(t) + 1, n) =>
                  /\ ExitBar(t) = n
                  /\ t.exit_reason = "end_of_data"
                  /\ t.forced_exit
        /\ \A a, b \in 1..Len(trades) : trades[a].entry_date = trades[b].entry_date => a = b
        /\ position > 0 =>
              /\ trades # <<>>
              /\ trades[Len(trades)].entry_date = entry_date
              /\ trades[Len(trades)].shares = position
              /\ trades[Len(trades)].exit_reason = "end_of_data"

C7_Witness ==
    /\ pc = "done"
    /\ \E t \in TradeSet :
          /\ EntryBar(t) < n
          /\ NoTriggerIn(EntryBar(t), t.entry_price, EntryBar(t) + 1, n)
          /\ t.exit_reason = "end_of_data"

\* C8: no position stays open through a bar with elapsed days >= max_days;
\* when no Exit signal and no trailing stop fires up to the first such bar,
\* the trade exits there with exit_reason ForcedMax and forced_exit true, and
\* with 1-day spacing holding_days = max_days.
C8_MaxHolding ==
    pc = "done" =>
        \A t \in TradeSet :
            LET e == EntryBar(t)
                x == ExitBar(t)
            IN  /\ \A j \in (e + 1)..(x - 1) : ElapsedDays(e, j) < max_holding_days
                /\ \A f \in (e + 1)..n :
                      ( /\ MaxHoldingAt(e, f)
                        /\ \A m \in (e + 1)..(f - 1) : ~MaxHoldingAt(e, m)
                        /\ \A m \in (e + 1)..f :
                              ~ExitSignalAt(m) /\ ~TrailingAt(e, t.entry_price, m) )
                      => /\ x = f
                         /\ t.exit_reason = "forced_max"
                         /\ t.forced_exit
                         /\ (\A m \in e..(f - 1) : dates(m + 1) = dates(m) + 1) =>
                                t.holding_days = max_holding_days

\* C9: in _execute_trades_vectorized a position is never held past the first
\* bar after entry whose close retraces more than the threshold from the
\* running best price (max of High for long, min of Low for short, seeded
\* with the entry price); exit_reason TrailingStop occurs only at that bar,
\* and never when the trailing stop is disabled.
C9_TrailingStop ==
    (pc = "done" /\ use_vectorized) =>
        \A t \in TradeSet :
            LET e == EntryBar(t)
                x == ExitBar(t)
            IN  /\ \A j \in (e + 1)..(x - 1) : ~TrailingAt(e, t.entry_price, j)
                /\ t.exit_reason = "trailing_stop" =>
                      /\ trailing_stop_enabled
                      /\ x > e
                      /\ Retraced(e, t.entry_price, x)

C9_Witness ==
    /\ pc = "done" /\ use_vectorized
    /\ \E t \in TradeSet :
          /\ t.exit_reason = "trailing_stop"
          /\ ExitBar(t) >= EntryBar(t) + 2
          /\ prices(ExitBar(t)) = highs(ExitBar(t))
          /\ prices(ExitBar(t)) = lows(ExitBar(t))
          /\ \E m \in (EntryBar(t) + 1)..(ExitBar(t) - 1) :
                highs(m) # prices(m) \/ lows(m) # prices(m)

Affordable(b) == SharesFor(initial_capital * MoneyDen, EntryPriceAt(b)) >= 1

\* C10: an Enter with share count 0 is skipped and scanning continues from
\* the next bar, so the first Enter whose price the (unchanged) initial cash
\* can afford opens the first position.
C10_SkipThenEnter ==
    pc = "done" =>
        \A b \in 1..n :
            ( /\ signals[b] = 1
              /\ Affordable(b)
              /\ \A m \in 1..(b - 1) : signals[m] = 1 => ~Affordable(m) )
            => (trades # <<>> /\ trades[1].entry_date = dates(b))

\* a trade of the list ts holds a position at bar j (entry bar to exit bar)
OpenAt(ts, j) ==
    \E a \in 1..Len(ts) : EntryBar(ts[a]) <= j /\ j <= ExitBar(ts[a])

RECURSIVE ProfitsBefore(_, _, _)
\* sum of the recorded profits of the first m trades of ts that exited before bar j
ProfitsBefore(ts, m, j) ==
    IF m = 0 THEN 0
    ELSE ProfitsBefore(ts, m - 1, j) + (IF ExitBar(ts[m]) < j THEN ts[m].profit ELSE 0)

\* C14: in the simulator's equity trajectory every bar at which no position
\* is open holds the cash at that point: the initial capital before the first
\* entry, and the initial capital plus the profits of the trades already
\* exited afterwards, for any number of trades.
C14_FlatEquityIsCash ==
    pc = "done" =>
        \A j \in 1..n :
            ~OpenAt(trades, j) =>
                equity[j] = initial_capital * MoneyDen + ProfitsBefore(trades, Len(trades), j)

\* C15: in the reconstructed valid-equity trajectory every bar at which no
\* valid trade is open holds the initial capital plus the profits of the
\* valid trades that exited before it; forced and excluded trades leave no
\* mark, and every bar before the first valid entry holds the initial capital.
C15_ValidCurveIgnoresOtherTrades ==
    pc = "done" =>
        \A j \in 1..n :
            ~OpenAt(valid_trades, j) =>
                valid_equity_curve[j] =
                    initial_capital * MoneyDen
                      + ProfitsBefore(valid_trades, Len(valid_trades), j)

\* C16: with no valid trade (in particular with no Enter signal at all) the
\* reconstructed trajectory holds the initial capital at every bar, and the
\* result reports num_trades = 0 and total_return = 0.
C16_NoValidTradesFlat ==
    pc = "done" =>
        /\ (\A j \in 1..n : signals[j] # 1) => valid_trades = <<>>
        /\ valid_trades = <<>> =>
              /\ Len(valid_equity_curve) = n
              /\ \A j \in 1..n : valid_equity_curve[j] = initial_capital * MoneyDen
              /\ num_trades = 0
              /\ total_return.num = 0 /\ total_return.den # 0

C16_Witness ==
    /\ pc = "done"
    /\ valid_trades = <<>>
    /\ \E t \in TradeSet : t.profit # 0 /\ ExitBar(t) < n

\* C17: when every trade of the run is classified valid, the reconstructed
\* trajectory equals the simulator's trajectory bar for bar.
C17_ReconstructionMatchesSimulator ==
    (pc = "done" /\ valid_trades = trades) =>
        /\ Len(valid_equity_curve) = Len(equity)
        /\ \A j \in 1..n : valid_equity_curve[j] = equity[j]

\* C13: the per-bar scan and the batch scan return the same trade list for
\* the same bars, signals, costs, holding policy and direction.
C13_ScansAgree ==
    (pc = "done" /\ ~use_vectorized) => trades = execute_trades_vectorized

\* C11: slippage is applied against the trader: long enters at
\* close * (1 + slippage) and exits at close * (1 - slippage); short enters
\* at close * (1 - slippage) and exits at close * (1 + slippage).
C11_SlippageAgainstTrader ==
    pc = "done" =>
        \A t \in TradeSet :
            IF strategy_type = "long"
            THEN /\ t.entry_price = prices(EntryBar(t)) * (RateDen + slippage)
                 /\ t.exit_price = prices(ExitBar(t)) * (RateDen - slippage)
            ELSE /\ t.entry_price = prices(EntryBar(t)) * (RateDen - slippage)
                 /\ t.exit_price = prices(ExitBar(t)) * (RateDen + slippage)

\* C12: the profit of every recorded trade is the signed price difference
\* times the shares, minus the commission of both legs
\* (rate * shares * entry_price + rate * shares * exit_price), minus for
\* short the lending cost shares * entry_price * lending_rate * days / 365.
C12_ProfitFormula ==
    pc = "done" =>
        \A t \in TradeSet :
            LET delta == IF strategy_type = "long"
                         THEN t.exit_price - t.entry_price
                         ELSE t.entry_price - t.exit_price
                legs == commission * t.shares * t.entry_price
                          + commission * t.shares * t.exit_price
                lend == IF strategy_type = "short"
                        THEN t.shares * t.entry_price * lending_rate * t.holding_days
                        ELSE 0
            IN  t.profit = delta * t.shares * RateDen * DaysPerYear
                             - legs * DaysPerYear - lend

\* C19: with a positive initial capital and positive prices every value of
\* the simulator's equity trajectory and of the reconstructed valid-equity
\* trajectory is >= 0.
C19_EquityNonNegative ==
    pc = "done" =>
        /\ \A j \in 1..Len(equity) : equity[j] >= 0
        /\ \A j \in 1..Len(valid_equity_curve) : valid_equity_curve[j] >= 0

\* a bar of the frame has a price <= 0
NonPositivePrice == \E j \in 1..n : prices(j) <= 0

\* C18: malformed input (here: a bar with price <= 0) makes the simulation
\* fail with an error: the simulator returns no trade list and no trajectory,
\* and run_backtest no result.
C18_MalformedInputAborts ==
    NonPositivePrice => pc \in {"simulate", "raised"}

\* the highest value of the trajectory up to position t
runningPeak(eq, t) == CHOOSE v \in { eq[u] : u \in 1..t } : \A u \in 1..t : eq[u] <= v

\* C20: calculate_max_drawdown returns the largest
\* (runningPeak(t) - value(t)) / runningPeak(t) x 100 over the trajectory as
\* a magnitude >= 0: 0 for a non-decreasing trajectory, 25 for
\* [100, 120, 90, 110], and 0 for the empty trajectory.
C20_MaxDrawdown ==
    pc = "returned" =>
        LET eq == equity_curve
            r == max_drawdown
        IN  /\ r.den > 0 /\ r.num >= 0
            /\ \A t \in 1..Len(eq) :
                  (runningPeak(eq, t) - eq[t]) * r.den <= r.num * runningPeak(eq, t)
            /\ Len(eq) > 0 =>
                  \E t \in 1..Len(eq) :
                      (runningPeak(eq, t) - eq[t]) * r.den = r.num * runningPeak(eq, t)
            /\ (\A t \in 1..(Len(eq) - 1) : eq[t] <= eq[t + 1]) => r.num = 0
            /\ eq = <<100, 120, 90, 110>> => 100 * r.num = 25 * r.den
            /\ eq = <<>> => r.num = 0

C20_Witness ==
    /\ pc = "returned"
    /\ equity_curve = <<100, 120, 90, 110>>
    /\ max_drawdown.num # 0

\* C27: forced_exit is true exactly when exit_reason is forced_max or
\* end_of_data and false exactly when it is signal or trailing_stop;
\* exit_reason takes no other value.
C27_ForcedFlagMatchesReason ==
    pc = "done" =>
        \A t \in TradeSet :
            /\ t.exit_reason \in {"signal", "trailing_stop", "forced_max", "end_of_data"}
            /\ t.forced_exit <=> t.exit_reason \in {"forced_max", "end_of_data"}

C27_Witness ==
    /\ pc = "done"
    /\ \E t \in TradeSet : t.exit_reason = "end_of_data" /\ t.forced_exit
    /\ \E t \in TradeSet : t.exit_reason \in {"signal", "trailing_stop"} /\ ~t.forced_exit

RECURSIVE SumOfProfits(_, _)
\* sum of the recorded profits of the first m trades of ts
SumOfProfits(ts, m) ==
    IF m = 0 THEN 0 ELSE SumOfProfits(ts, m - 1) + ts[m].profit

\* C29: in _execute_trades_vectorized the cash after each settlement is the
\* cash before the entry plus the recorded profit, so at the end the cash is
\* the initial capital plus the sum of the recorded profits.
C29_CashMatchesProfit ==
    (pc = "done" /\ use_vectorized) =>
        cash = initial_capital * MoneyDen + SumOfProfits(trades, Len(trades))

\* C28: for every recorded trade holding_days is the number of calendar days
\* from the entry to the exit timestamp, an integer >= 0, the exit is not
\* before the entry and shares >= 1; within_target_period is true exactly
\* when holding_days <= target_days, and the trade is in the valid bucket
\* exactly when within_target_period is true.
C28_TradeRecordFields ==
    pc = "done" =>
        \A t \in TradeSet :
            /\ t.holding_days = t.exit_date - t.entry_date
            /\ t.holding_days >= 0
            /\ t.exit_date >= t.entry_date
            /\ t.shares >= 1
            /\ t.within_target_period <=> t.holding_days <= target_holding_days
            /\ InBucket(t, valid_trades) <=> t.within_target_period

RECURSIVE ProfitOver(_, _)
\* the sum of the profits of the trades at the positions S of ts
ProfitOver(ts, S) ==
    IF S = {} THEN 0
    ELSE LET a == CHOOSE x \in S : TRUE IN ts[a].profit + ProfitOver(ts, S \ {a})

Winners(ts) == { a \in 1..Len(ts) : ts[a].profit > 0 }
Losers(ts) == { a \in 1..Len(ts) : ts[a].profit < 0 }
ProfitsOf(ts) == [a \in 1..Len(ts) |-> ts[a].profit]

\* v is the quotient gp / gl, or what the function returns without a loss
IsProfitFactor(v, ts) ==
    LET gp == ProfitOver(ts, Winners(ts))
        gl == 0 - ProfitOver(ts, Losers(ts))
    IN  IF gl = 0
        THEN v = (IF gp > 0 THEN Infinity ELSE [num |-> 0, den |-> 1])
        ELSE /\ v.den > 0
             /\ FracLeq(v, [num |-> gp, den |-> gl])
             /\ FracLeq([num |-> gp, den |-> gl], v)

\* v is the share of winners in percent, 0 for no trade
IsWinRate(v, ts) ==
    IF Len(ts) = 0 THEN v = [num |-> 0, den |-> 1]
    ELSE /\ v.den > 0
         /\ v.num * Len(ts) = Cardinality(Winners(ts)) * v.den
         /\ 0 <= v.num /\ v.num <= v.den

\* C21: calculate_profit_factor returns the sum of the strictly positive
\* profits over the absolute sum of the strictly negative ones; without a loss
\* it returns +infinity when there is a profit and 0 otherwise (the empty list
\* and a list of break-even trades included); [+100, -100] gives 1 and
\* [10, 5, 20, -3, -7] gives 3.5.
C21_ProfitFactor ==
    pc = "returned_profit_factor" =>
        /\ IsProfitFactor(profit_factor, trade_list)
        /\ ProfitsOf(trade_list) = <<100, 0 - 100>> => profit_factor = [num |-> 100, den |-> 100]
        /\ ProfitsOf(trade_list) = <<10, 5, 20, 0 - 3, 0 - 7>> =>
               2 * profit_factor.num = 7 * profit_factor.den
        /\ (\A a \in 1..Len(trade_list) : trade_list[a].profit = 0) =>
               profit_factor = [num |-> 0, den |-> 1]

C21_Witness ==
    /\ pc = "returned_profit_factor"
    /\ ProfitsOf(trade_list) = <<10, 5, 20, 0 - 3, 0 - 7>>
    /\ profit_factor = [num |-> 35, den |-> 10]

\* C22: calculate_win_rate returns the number of trades with a strictly
\* positive profit over the number of trades, times 100; a break-even trade
\* is no win, the empty list gives 0 and the result lies within [0, 100].
C22_WinRate ==
    pc = "returned_win_rate" =>
        /\ IsWinRate(win_rate, trade_list)
        /\ ProfitsOf(trade_list) = <<10, 5, 20, 0 - 3, 0 - 7>> =>
               100 * win_rate.num = 60 * win_rate.den

C22_Witness ==
    /\ pc = "returned_win_rate"
    /\ ProfitsOf(trade_list) = <<10, 0, 0 - 3>>
    /\ win_rate = [num |-> 1, den |-> 3]

\* C23: calculate_sharpe_ratio returns 0 for a return series of fewer than
\* two points and for one whose standard deviation is 0, and returns a number
\* in every case.
C23_SharpeGuard ==
    pc = "returned_sharpe_ratio" =>
        /\ sharpe_ratio.kind = "number"
        /\ (Len(returns) < 2 \/ \A a \in 1..Len(returns) : returns[a] = returns[1]) =>
               sharpe_ratio = NoSharpe

\* C24: the statistics of the result bundle come from the valid trades only:
\* num_trades, win_rate and profit_factor over the valid trades, total_return
\* and max_drawdown over the valid-equity trajectory; the trades field holds
\* every trade and each of them is in exactly one of valid, forced, excluded.
C24_StatisticsFromValidTrades ==
    pc = "done" =>
        /\ num_trades = Len(valid_trades)
        /\ IsWinRate(win_rate, valid_trades)
        /\ IsProfitFactor(profit_factor, valid_trades)
        /\ valid_equity_curve = calculate_valid_equity_curve(valid_trades)
        /\ total_return = calculate_total_return(valid_equity_curve)
        /\ max_drawdown = calculate_max_drawdown(valid_equity_curve)
        /\ Len(valid_trades) + Len(forced_trades) + Len(excluded_trades) = Len(trades)
        /\ \A a \in 1..Len(trades) :
               Cardinality({ b \in 1..3 :
                   InBucket(trades[a], <<valid_trades, forced_trades, excluded_trades>>[b]) }) = 1

C24_Witness ==
    /\ pc = "done"
    /\ Len(valid_trades) > 0
    /\ Len(forced_trades) > 0
    /\ win_rate # calculate_win_rate(trades)

\* C25: the pipelines of one instrument run on the thread pool share no
\* mutable state: whatever the interleaving and the order of completion, the
\* map returned has exactly one entry per strategy and each entry is the one
\* the sequential variant computes for that strategy.
C25_PoolMatchesSequential ==
    pc = "returned" /\ strategies # <<>> =>
        /\ DOMAIN results = { strategies[k].name : k \in 1..Len(strategies) }
        /\ Cardinality(DOMAIN results) = Len(strategies)
        /\ \A k \in 1..Len(strategies) :
               results[strategies[k].name] =
                   calculate_compatibility_sequential(strategies)[strategies[k].name]

C25_Witness ==
    /\ pc = "returned"
    /\ Len(strategies) = 3
    /\ max_workers = 2
    /\ collected = <<2, 3, 1>>
    /\ results[strategies[1].name].score # results[strategies[2].name].score

\* the dictionary an item is, whatever the order of its keys
AsDict(item) == [k \in Keys(item) |-> (CHOOSE a \in 1..Len(item) : item[a][1] = k)]

SameDict(x, y) ==
    /\ Keys(x) = Keys(y)
    /\ \A k \in Keys(x) :
           x[CHOOSE a \in 1..Len(x) : x[a][1] = k][2] =
           y[CHOOSE a \in 1..Len(y) : y[a][1] = k][2]

\* the fields of an item other than rank
SameFields(x, y) ==
    /\ Keys(x) \ {"rank"} = Keys(y) \ {"rank"}
    /\ \A k \in Keys(x) \ {"rank"} :
           x[CHOOSE a \in 1..Len(x) : x[a][1] = k][2] =
           y[CHOOSE a \in 1..Len(y) : y[a][1] = k][2]

RankOf(x) == x[CHOOSE a \in 1..Len(x) : x[a][1] = "rank"][2]

\* C26: after save_ranking(s, items), load_ranking(s, limit, offset) returns
\* the saved items at positions offset .. offset+limit-1 (all from offset
\* without a limit) in saved order, each with rank equal to its 1-based
\* position in the saved list; a strategy never saved gives the empty list
\* and a later save for the same strategy replaces the earlier list.
C26_RankingRoundTrip ==
    pc = "loaded" =>
        IF request.strategy \notin DOMAIN rankings THEN loaded = <<>>
        ELSE LET items == rankings[request.strategy]
                 first == request.offset + 1
                 last == IF request.limit.none THEN Len(items)
                         ELSE Min(Len(items), request.offset + request.limit.value)
             IN  /\ Len(loaded) = Max(0, last - first + 1)
                 /\ \A a \in 1..Len(loaded) :
                        /\ SameFields(loaded[a], items[first + a - 1])
                        /\ "rank" \in Keys(loaded[a])
                        /\ RankOf(loaded[a]) = Num(first + a - 1)

C26_Witness ==
    /\ pc = "loaded"
    /\ request.strategy \in DOMAIN rankings
    /\ Len(rankings[request.strategy]) = 3
    /\ "rank" \in Keys(rankings[request.strategy][2])
    /\ request.offset = 1
    /\ request.limit = [none |-> FALSE, value |-> 1]
    /\ Len(loaded) = 1
    /\ RankOf(loaded[1]) = Num(2)

NoDuplicates(xs) == \A a, b \in 1..Len(xs) : xs[a] = xs[b] => a = b

\* the entries of a ranking file that belong to a code
EntriesFor(name, code) ==
    IF name \notin DOMAIN ranking_files THEN {}
    ELSE { a \in 1..Len(ranking_files[name]) :
             \E b \in 1..Len(loads(strip(ranking_files[name][a]))) :
                 loads(strip(ranking_files[name][a]))[b] = <<"code", Str(code)>> }

\* a run that resumed from a saved progress file has completed
ResumedRunCompleted ==
    pc = "finished" /\ resume /\ progress.exists /\ ~test_mode

\* C30: a run resumed from a saved progress file does not process the codes
\* of the saved processed list again, and when it completes every strategy's
\* ranking holds one entry for every code of the final processed list, no
\* code is in both the processed and the failed list or twice in either,
\* and the progress file is gone.
C30_ResumeCompletes ==
    ResumedRunCompleted =>
        /\ SeqSet(progress.processed_codes) \cap SeqSet(remaining_codes) = {}
        /\ \A name \in BatchStrategies : \A code \in SeqSet(processed_codes) :
               Cardinality(EntriesFor(name, code)) = 1
        /\ SeqSet(processed_codes) \cap SeqSet(failed_codes) = {}
        /\ NoDuplicates(processed_codes)
        /\ NoDuplicates(failed_codes)
        /\ ~progress_file.exists

=============================================================================
